---------------------------- MODULE Spec2Model ----------------------------
(* A model of libriff-X (src/src/riff.c with the header src/unnamed/part_002): *)
(* the riff_handle navigator over a byte source.                                 *)
(*                                                                               *)
(* Values of type riff_ufs_t do not fit TLC's integers, so an unsigned value is  *)
(* a tuple of four 16-bit limbs, least significant first; arithmetic wraps at    *)
(* the width of riff_ufs_t, which the build option RIFF_64BIT_FILESIZE_SUPPORT   *)
(* sets to 64 or 32 bits.                                                        *)
EXTENDS Integers, Sequences, FiniteSets, TLC

VARIABLES
    RIFF_64BIT_FILESIZE_SUPPORT, \* the build option (part_002 line 70)
    data,      \* the bytes of the source: the file's content or the memory block
    oob,       \* the byte value found outside the memory block (read_mem has no bound)
    rh,        \* the riff_handle
    opened,    \* what riff_open_...() returned, and the handle as it left it
    op,        \* the entry point called last
    ret,       \* what it returned
    out,       \* the bytes the last riff_readInChunk stored
    crit,      \* the last call ended in a critical error: the handle's state is undefined
    hung,      \* the last call does not return
    start      \* the offset in the source at which the RIFF data starts

vars == <<RIFF_64BIT_FILESIZE_SUPPORT, data, oob, rh, opened, op, ret, out, crit, hung,
          start>>

-----------------------------------------------------------------------------
(* Program constants *)

RIFF_LEVEL_ALLOC == 16
RIFF_HEADER_SIZE == 12
RIFF_CHUNK_DATA_OFFSET == 8

RIFF_ERROR_NONE == 0
RIFF_ERROR_EOC == 1
RIFF_ERROR_EOCL == 2
RIFF_ERROR_EXDAT == 3
RIFF_ERROR_CRITICAL == 4
RIFF_ERROR_ILLID == 4
RIFF_ERROR_ICSIZE == 5
RIFF_ERROR_EOF == 6
RIFF_ERROR_ACCESS == 7
RIFF_ERROR_INVALID_HANDLE == 8

-----------------------------------------------------------------------------
(* Bounds of the model *)

\* riff_readInChunk is called with size in 0..MaxRead
MaxRead == 2
\* riff_seekInChunk is called with c_pos in 0..MaxSeek, and with c_size, c_size + 1
MaxSeek == 2
\* the file adapter is opened with the stream at offset 0 or MaxStart
MaxStart == 2
\* the chunk walks of the validators and counters are followed for MaxWalk steps
MaxWalk == 12
\* riff_readInChunk is called at the chunk offsets 0..MaxPos
MaxPos == 2

-----------------------------------------------------------------------------
(* riff_ufs_t: unsigned arithmetic on 16-bit limbs *)

Limb == 2^16

\* the value of a small natural number
U(n) == <<n % Limb, n \div Limb, 0, 0>>

\* the conversion to riff_ufs_t: 64 or 32 bits
ufs(x) == IF RIFF_64BIT_FILESIZE_SUPPORT THEN x ELSE <<x[1], x[2], 0, 0>>

uAdd64(a, b) ==
    LET s1 == a[1] + b[1]
        s2 == a[2] + b[2] + (s1 \div Limb)
        s3 == a[3] + b[3] + (s2 \div Limb)
        s4 == a[4] + b[4] + (s3 \div Limb)
    IN  <<s1 % Limb, s2 % Limb, s3 % Limb, s4 % Limb>>

uSub64(a, b) ==
    LET d1 == a[1] - b[1]
        d2 == a[2] - b[2] - (IF d1 < 0 THEN 1 ELSE 0)
        d3 == a[3] - b[3] - (IF d2 < 0 THEN 1 ELSE 0)
        d4 == a[4] - b[4] - (IF d3 < 0 THEN 1 ELSE 0)
    IN  <<d1 % Limb, d2 % Limb, d3 % Limb, d4 % Limb>>

\* a + b and a - b in riff_ufs_t
uAdd(a, b) == ufs(uAdd64(a, b))
uSub(a, b) == ufs(uSub64(a, b))

uLt(a, b) ==
    \/ a[4] < b[4]
    \/ a[4] = b[4] /\ a[3] < b[3]
    \/ a[4] = b[4] /\ a[3] = b[3] /\ a[2] < b[2]
    \/ a[4] = b[4] /\ a[3] = b[3] /\ a[2] = b[2] /\ a[1] < b[1]

uLe(a, b) == a = b \/ uLt(a, b)

\* the value as an integer, for values below 2^30
uSmall(a) == a[4] = 0 /\ a[3] = 0 /\ a[2] < 2^14
uInt(a) == a[1] + Limb * a[2]

-----------------------------------------------------------------------------
(* Bytes and four character codes *)

id_RIFF == <<82, 73, 70, 70>>
id_LIST == <<76, 73, 83, 84>>
id_BW64 == <<66, 87, 54, 52>>
id_ds64 == <<100, 115, 54, 52>>
id_WAVE == <<87, 65, 86, 69>>
id_fmt  == <<102, 109, 116, 32>>
id_data == <<100, 97, 116, 97>>
id_hdrl == <<104, 100, 114, 108>>
id_avih == <<97, 118, 105, 104>>
id_bad  == <<97, 7, 105, 104>>
id_zero == <<0, 0, 0, 0>>

\* the test of an id with a fault: only the first byte is looked at
printable_first(id) == ~(id[1] < 32 \/ id[1] > 126)

\* "printable ASCII" as riff_readChunkHeader and riff_seekLevelSub test it
printable(id) == \A i \in 1..4 : ~(id[i] < 32 \/ id[i] > 126)

\* the list ids with a fault: "BW64" is a list id in every build
isListId_ungated(id) == ~(id # id_LIST /\ id # id_RIFF /\ id # id_BW64)

\* the list ids riff_seekLevelSub accepts
isListId(id) ==
    ~(  id # id_LIST /\ id # id_RIFF
     /\ (IF RIFF_64BIT_FILESIZE_SUPPORT THEN id # id_BW64 ELSE TRUE))

convUInt32LE(c) == <<c[1] + 256 * c[2], c[3] + 256 * c[4], 0, 0>>


\* the four bytes of a size field; a negative v stands for 2^32 + v
le32(v) ==
    IF v >= 0
    THEN <<v % 256, (v \div 256) % 256, (v \div 65536) % 256, (v \div 16777216) % 256>>
    ELSE LET m == -(v + 1)
         IN  <<255 - (m % 256), 255 - ((m \div 256) % 256),
               255 - ((m \div 65536) % 256), 255 - ((m \div 16777216) % 256)>>

-----------------------------------------------------------------------------
(* The sources the handle is opened on: RIFF images with their size fields *)
(* as parameters, well-formed for the default values and corrupt otherwise *)

\* RIFF(s1) WAVE | fmt (s2) AA BB CC + pad 50 | data(s3) DD EE
Odd(s) ==
    id_RIFF \o le32(s[1]) \o id_WAVE
    \o id_fmt \o le32(s[2]) \o <<170, 187, 204, 80>>
    \o id_data \o le32(s[3]) \o <<221, 238>>

\* RIFF(s1) WAVE | LIST(s2) hdrl | LIST(s3) avih | fmt (s4) 03 + pad | data(s5) 05 06
\* the fmt chunk in the inner list, the data chunk after the outer list
Nest(s) ==
    id_RIFF \o le32(s[1]) \o id_WAVE
    \o id_LIST \o le32(s[2]) \o id_hdrl
    \o id_LIST \o le32(s[3]) \o id_avih
    \o id_fmt \o le32(s[4]) \o <<3, 80>>
    \o id_data \o le32(s[5]) \o <<5, 6>>

\* id(s1) WAVE | ds64(s2) low(s3) high(s4) | data(s5) 01 02
Ds64(id, s) ==
    id \o le32(s[1]) \o id_WAVE
    \o id_ds64 \o le32(s[2]) \o le32(s[3]) \o le32(s[4])
    \o id_data \o le32(s[5]) \o <<1, 2>>

\* RIFF(s1) WAVE | fmt (s2) 01 02 | three stray bytes
Stray(s) ==
    id_RIFF \o le32(s[1]) \o id_WAVE
    \o id_fmt \o le32(s[2]) \o <<1, 2>>
    \o <<9, 9, 9>>

\* RIFF(s1) WAVE | LIST(s2) hdrl, a list without children, then what follows it
Childless(s, rest) ==
    id_RIFF \o le32(s[1]) \o id_WAVE
    \o id_LIST \o le32(s[2]) \o id_hdrl \o rest

\* RIFF(s1) WAVE | LIST(s2) with a type that is not printable
BadType(s) ==
    id_RIFF \o le32(s[1]) \o id_WAVE
    \o id_LIST \o le32(s[2]) \o id_bad

\* outer(14) type | first(2) 01 02: the ids as parameters
Ids(outer, type, first) ==
    outer \o le32(14) \o type \o first \o le32(2) \o <<1, 2>>

\* RIFF(4) WAVE: the outer header alone, no chunk is declared
HeaderOnly == id_RIFF \o le32(4) \o id_WAVE

\* RIFF(16) WAVE | id(4) hdrl: a list chunk of the given id with no children
ChildlessOf(id) ==
    id_RIFF \o le32(16) \o id_WAVE \o id \o le32(4) \o id_hdrl

\* the values a corrupt size field takes
SizeVals == {0, 9999, -1, -8}

Variants(d) ==
    {d} \cup {[d EXCEPT ![f] = v] : f \in DOMAIN d, v \in SizeVals}

Sources ==
    {Odd(s) : s \in Variants(<<26, 3, 2>>)}
    \cup {Nest(s) : s \in { <<48, 26, 14, 1, 2>>, <<48, 26, 14, -8, 2>>, <<48, 26, 9999, 1, 2>> }}
    \cup {Ds64(id_BW64, s) : s \in { <<-1, 8, 30, 0, 2>>, <<-1, 8, 4, 0, 2>>,
                                     <<-1, 8, -1, -1, 2>>, <<-1, 8, -2147483647 - 1, 1, 2>>,
                                     <<-1, 4, 30, 0, 2>>, <<30, 8, 30, 0, 2>> }}
    \cup {Ds64(id_RIFF, <<-1, 8, 30, 0, 2>>)}
    \cup {Stray(<<17, 2>>), Stray(<<15, 2>>)}
    \cup {Childless(<<16, 4>>, <<>>), Childless(<<26, 4>>, id_data \o le32(2) \o <<1, 2>>)}
    \cup {Ids(id_RIFF, id_WAVE, id_bad), Ids(id_LIST, id_WAVE, id_fmt),
          Ids(id_RIFF, id_bad, id_fmt), Ids(id_BW64, id_WAVE, id_BW64),
          Ids(id_RIFF, id_WAVE, id_LIST)}
    \cup {BadType(<<16, 4>>)}
    \cup {HeaderOnly}
    \cup {Odd(<<26, -16, 2>>)}
    \cup {Childless(<<26, 4>>, id_data \o le32(-8) \o <<1, 2>>)}
    \cup {ChildlessOf(id_BW64), ChildlessOf(id_RIFF)}
    \cup {SubSeq(Odd(<<26, 3, 2>>), 1, n) : n \in {8, 12, 16}}

\* the number of lists, one in the other, of the source Deep: one more than the
\* RIFF_LEVEL_ALLOC entries that the level stack is first allocated with
MaxNest == 17

\* n LIST chunks one in the other, around a "fmt " chunk of 2 bytes: 10 + 12 n
\* bytes, of which a list has 12 in its header and type
RECURSIVE Lists(_)
Lists(n) ==
    IF n = 0 THEN id_fmt \o le32(2) \o <<1, 2>>
    ELSE id_LIST \o le32(4 + 10 + 12 * (n - 1)) \o id_hdrl \o Lists(n - 1)

\* RIFF WAVE | LIST hdrl | LIST hdrl | ... | fmt (2) 01 02
Deep == id_RIFF \o le32(4 + 10 + 12 * MaxNest) \o id_WAVE \o Lists(MaxNest)

\* what precedes the RIFF data in a file that embeds it
Prefix(k) == [i \in 1..k |-> 80]

-----------------------------------------------------------------------------
(* The handle *)

\* struct __riff_handle after riff_handleAllocate(): calloc, and the print hook.
\* ls holds the entries below ls_level (no function reads the others); fh is the
\* state of the object behind the pointer, the position of the FILE stream;
\* oob_read records that read_mem has copied from outside the memory block.
riff_handleAllocate ==
    [ cl_id |-> id_zero, cl_size |-> U(0), cl_type |-> id_zero, cl_pos_start |-> U(0),
      size |-> U(0), pos |-> U(0),
      c_pos_start |-> U(0), c_pos |-> U(0), c_id |-> id_zero, c_size |-> U(0), pad |-> 0,
      ls |-> <<>>, ls_size |-> 0, ls_level |-> 0,
      fh |-> U(0), fp_read |-> "NULL", fp_seek |-> "NULL", fp_printf |-> "riff_printf",
      oob_read |-> FALSE ]

Min(a, b) == IF a < b THEN a ELSE b

\* a local variable of the C code: v is computed once and F is what follows
With(v, F(_)) == CHOOSE x \in {F(w) : w \in {v}} : TRUE

\* fread(ptr, 1, size, fh): the bytes from the stream's position to the end of file
read_file(h, size) ==
    LET avail == IF uSmall(h.fh) /\ uInt(h.fh) < Len(data)
                 THEN Len(data) - uInt(h.fh) ELSE 0
    IN  With(Min(size, avail), LAMBDA n :
        [ rh  |-> [h EXCEPT !.fh = uAdd64(h.fh, U(n))],
          buf |-> IF n = 0 THEN <<>> ELSE SubSeq(data, uInt(h.fh) + 1, uInt(h.fh) + n) ])

\* fseek(fh, pos, SEEK_SET) with a 64-bit long: a negative offset is refused
seek_file(h, pos) ==
    IF pos[4] >= 2^15 THEN h ELSE [h EXCEPT !.fh = pos]

\* memcpy(ptr, fh + pos, size): always size bytes, also from outside the block
memByte(p) == IF uSmall(p) /\ uInt(p) < Len(data) THEN data[uInt(p) + 1] ELSE oob

read_mem(h, size) ==
    With(uAdd64(h.pos, U(size)), LAMBDA last :
        [ rh  |-> [h EXCEPT !.oob_read =
                      @ \/ (size > 0 /\ ~(uSmall(last) /\ uInt(last) <= Len(data)))],
          buf |-> [i \in 1..size |-> memByte(uAdd64(h.pos, U(i - 1)))] ])

seek_mem(h, pos) == h

\* riff_printf writes the message to stderr; the handle is not passed to it
riff_printf(h) == h

\* if(rh->fp_printf) rh->fp_printf(...): the handle after the statement
fp_printf(h) == IF h.fp_printf = "NULL" THEN h ELSE riff_printf(h)

fp_read(h, size) ==
    IF h.fp_read = "read_file" THEN read_file(h, size) ELSE read_mem(h, size)

fp_seek(h, pos) ==
    IF h.fp_seek = "seek_file" THEN seek_file(h, pos) ELSE seek_mem(h, pos)

-----------------------------------------------------------------------------
(* riff.c, internal functions.  A function that returns an error code is an *)
(* operator from the handle to [rh: the handle afterwards, r: the code].    *)

\* the end of the chunk with a fault: the size of the chunk is left out
cposend_nosize(h) == uAdd(uAdd(h.c_pos_start, U(RIFF_CHUNK_DATA_OFFSET)), U(h.pad))

\* the end of the chunk and the end of its list, as riff_readChunkHeader computes them
cposend(h) ==
    uAdd(uAdd(uAdd(h.c_pos_start, U(RIFF_CHUNK_DATA_OFFSET)), h.c_size), U(h.pad))

listend(h) == uAdd(uAdd(h.cl_pos_start, U(RIFF_CHUNK_DATA_OFFSET)), h.cl_size)

\* riff_readChunkHeader with a fault: the return for an invalid id is part of the
\* statement that the print hook guards
readChunkHeader_unbraced(h) ==
    With(fp_read(h, 8), LAMBDA rd :
        IF Len(rd.buf) # 8 THEN [rh |-> rd.rh, r |-> RIFF_ERROR_EOF]
        ELSE
        With(convUInt32LE(SubSeq(rd.buf, 5, 8)), LAMBDA size32 :
        With([rd.rh EXCEPT !.c_pos_start = rd.rh.pos,
                           !.pos = uAdd(rd.rh.pos, U(8)),
                           !.c_id = SubSeq(rd.buf, 1, 4),
                           !.c_size = ufs(size32),
                           !.pad = size32[1] % 2,
                           !.c_pos = U(0)], LAMBDA h2 :
            IF ~printable(h2.c_id) /\ h2.fp_printf # "NULL" THEN [rh |-> h2, r |-> RIFF_ERROR_ILLID]
            ELSE IF uLt(listend(h2), cposend(h2)) THEN [rh |-> h2, r |-> RIFF_ERROR_ICSIZE]
            ELSE IF uLt(U(0), h2.size) /\ uLt(h2.size, cposend(h2))
                 THEN [rh |-> h2, r |-> RIFF_ERROR_EOF]
            ELSE [rh |-> h2, r |-> RIFF_ERROR_NONE])))


riff_readChunkHeader(h) ==
    With(fp_read(h, 8), LAMBDA rd :
        IF Len(rd.buf) # 8 THEN [rh |-> fp_printf(rd.rh), r |-> RIFF_ERROR_EOF]
        ELSE
        With(convUInt32LE(SubSeq(rd.buf, 5, 8)), LAMBDA size32 :
        With([rd.rh EXCEPT !.c_pos_start = rd.rh.pos,
                           !.pos = uAdd(rd.rh.pos, U(8)),
                           !.c_id = SubSeq(rd.buf, 1, 4),
                           !.c_size = ufs(size32),
                           !.pad = size32[1] % 2,
                           !.c_pos = U(0)], LAMBDA h2 :
            IF ~printable(h2.c_id) THEN [rh |-> fp_printf(h2), r |-> RIFF_ERROR_ILLID]
            ELSE IF uLt(listend(h2), cposend(h2)) THEN [rh |-> fp_printf(h2), r |-> RIFF_ERROR_ICSIZE]
            ELSE IF uLt(U(0), h2.size) /\ uLt(h2.size, cposend(h2))
                 THEN [rh |-> fp_printf(h2), r |-> RIFF_ERROR_EOF]
            ELSE [rh |-> h2, r |-> RIFF_ERROR_NONE])))

\* stack_pop with a fault: c_pos is taken from the start of the chunk, not of its data
stack_pop_no_offset(h) ==
    IF h.ls_level <= 0 THEN h
    ELSE With(h.ls[h.ls_level], LAMBDA ls :
         [h EXCEPT !.ls_level = h.ls_level - 1,
                   !.ls = SubSeq(h.ls, 1, h.ls_level - 1),
                   !.c_id = h.cl_id,
                   !.c_size = h.cl_size,
                   !.c_pos_start = h.cl_pos_start,
                   !.cl_id = ls.cl_id,
                   !.cl_size = ls.cl_size,
                   !.cl_type = ls.cl_type,
                   !.cl_pos_start = ls.cl_pos_start,
                   !.pad = h.cl_size[1] % 2,
                   !.c_pos = uSub(h.pos, h.cl_pos_start)])

\* stack_pop with a fault: pad stays that of the chunk that is left
stack_pop_keep_pad(h) ==
    IF h.ls_level <= 0 THEN h
    ELSE With(h.ls[h.ls_level], LAMBDA ls :
         [h EXCEPT !.ls_level = h.ls_level - 1,
                   !.ls = SubSeq(h.ls, 1, h.ls_level - 1),
                   !.c_id = h.cl_id,
                   !.c_size = h.cl_size,
                   !.c_pos_start = h.cl_pos_start,
                   !.cl_id = ls.cl_id,
                   !.cl_size = ls.cl_size,
                   !.cl_type = ls.cl_type,
                   !.cl_pos_start = ls.cl_pos_start,
                   !.c_pos = uSub(uSub(h.pos, h.cl_pos_start), U(RIFF_CHUNK_DATA_OFFSET))])

stack_pop(h) ==
    IF h.ls_level <= 0 THEN h
    ELSE With(h.ls[h.ls_level], LAMBDA ls :
         [h EXCEPT !.ls_level = h.ls_level - 1,
                   !.ls = SubSeq(h.ls, 1, h.ls_level - 1),
                   !.c_id = h.cl_id,
                   !.c_size = h.cl_size,
                   !.c_pos_start = h.cl_pos_start,
                   !.cl_id = ls.cl_id,
                   !.cl_size = ls.cl_size,
                   !.cl_type = ls.cl_type,
                   !.cl_pos_start = ls.cl_pos_start,
                   !.pad = h.cl_size[1] % 2,
                   !.c_pos = uSub(uSub(h.pos, h.cl_pos_start), U(RIFF_CHUNK_DATA_OFFSET))])

\* stack_push with a fault: the type of the new list is saved, not that of the old one
stack_push_type(h, type) ==
    [h EXCEPT !.ls_size = IF h.ls_size < h.ls_level + 1
                          THEN (IF h.ls_size * 2 = 0 THEN RIFF_LEVEL_ALLOC ELSE h.ls_size * 2)
                          ELSE @,
              !.ls = Append(h.ls, [cl_id |-> h.cl_id, cl_size |-> h.cl_size,
                                   cl_type |-> type,
                                   cl_pos_start |-> h.cl_pos_start]),
              !.cl_id = h.c_id,
              !.cl_size = h.c_size,
              !.cl_type = type,
              !.cl_pos_start = h.c_pos_start,
              !.ls_level = h.ls_level + 1]

\* stack_push with a fault: the stack is allocated with the entries in use only
stack_push_exact(h, type) ==
    [h EXCEPT !.ls_size = IF h.ls_size < h.ls_level + 1 THEN h.ls_level + 1 ELSE @,
              !.ls = Append(h.ls, [cl_id |-> h.cl_id, cl_size |-> h.cl_size,
                                   cl_type |-> h.cl_type,
                                   cl_pos_start |-> h.cl_pos_start]),
              !.cl_id = h.c_id,
              !.cl_size = h.c_size,
              !.cl_type = type,
              !.cl_pos_start = h.c_pos_start,
              !.ls_level = h.ls_level + 1]

stack_push(h, type) ==
    [h EXCEPT !.ls_size = IF h.ls_size < h.ls_level + 1
                          THEN (IF h.ls_size * 2 = 0 THEN RIFF_LEVEL_ALLOC ELSE h.ls_size * 2)
                          ELSE @,
              !.ls = Append(h.ls, [cl_id |-> h.cl_id, cl_size |-> h.cl_size,
                                   cl_type |-> h.cl_type,
                                   cl_pos_start |-> h.cl_pos_start]),
              !.cl_id = h.c_id,
              !.cl_size = h.c_size,
              !.cl_type = type,
              !.cl_pos_start = h.c_pos_start,
              !.ls_level = h.ls_level + 1]

(* riff.c, user access *)

\* returns [rh, n: the number of bytes read, buf: the bytes stored]
riff_readInChunk(h, size) ==
    With(uSub(h.c_size, h.c_pos), LAMBDA left :
    With(fp_read(h, IF uLt(left, U(size)) THEN uInt(left) ELSE size), LAMBDA rd :
    With(Len(rd.buf), LAMBDA n :
        [ rh  |-> [rd.rh EXCEPT !.pos = uAdd(@, U(n)), !.c_pos = uAdd(@, U(n))],
          n   |-> n,
          buf |-> rd.buf ])))

\* the ds64 chunk with a fault: the size of the outer header is not looked at
readHeader_ds64_any(ch) ==
    IF RIFF_64BIT_FILESIZE_SUPPORT /\ ch.rh.c_id = id_ds64
    THEN With(riff_readInChunk(ch.rh, 8), LAMBDA ds :
             IF ds.n # 8 THEN [rh |-> ds.rh, r |-> RIFF_ERROR_ICSIZE]
             ELSE
             With(convUInt32LE(SubSeq(ds.buf, 1, 4)), LAMBDA lo :
             With(convUInt32LE(SubSeq(ds.buf, 5, 8)), LAMBDA hi :
                 [rh |-> [ds.rh EXCEPT !.cl_size = <<lo[1], lo[2], hi[1], hi[2]>>],
                  r |-> RIFF_ERROR_NONE])))
    ELSE ch

\* the ds64 chunk of riff_readHeader: ch is what riff_readChunkHeader has returned
readHeader_ds64(ch) ==
    IF RIFF_64BIT_FILESIZE_SUPPORT
       /\ ch.rh.cl_size = <<65535, 65535, 0, 0>> /\ ch.rh.c_id = id_ds64
    THEN With(riff_readInChunk(ch.rh, 8), LAMBDA ds :
             IF ds.n # 8 THEN [rh |-> fp_printf(ds.rh), r |-> RIFF_ERROR_ICSIZE]
             ELSE
             With(convUInt32LE(SubSeq(ds.buf, 1, 4)), LAMBDA lo :
             With(convUInt32LE(SubSeq(ds.buf, 5, 8)), LAMBDA hi :
                 [rh |-> [ds.rh EXCEPT !.cl_size = <<lo[1], lo[2], hi[1], hi[2]>>],
                  r |-> RIFF_ERROR_NONE])))
    ELSE ch

riff_readHeader(h) ==
    IF h.fp_read = "NULL" THEN [rh |-> fp_printf(h), r |-> RIFF_ERROR_INVALID_HANDLE]
    ELSE
    With(fp_read(h, RIFF_HEADER_SIZE), LAMBDA rd :
    With([rd.rh EXCEPT !.pos = uAdd(@, U(Len(rd.buf)))], LAMBDA h1 :
        IF Len(rd.buf) # RIFF_HEADER_SIZE THEN [rh |-> fp_printf(h1), r |-> RIFF_ERROR_EOF]
        ELSE
        With([h1 EXCEPT !.cl_id = SubSeq(rd.buf, 1, 4),
                        !.cl_size = ufs(convUInt32LE(SubSeq(rd.buf, 5, 8))),
                        !.cl_type = SubSeq(rd.buf, 9, 12)], LAMBDA h2 :
            IF h2.cl_id # id_RIFF /\ h2.cl_id # id_BW64
            THEN [rh |-> fp_printf(h2), r |-> RIFF_ERROR_ILLID]
            ELSE
            With(riff_readChunkHeader(h2), LAMBDA ch :
                IF ch.r # RIFF_ERROR_NONE THEN ch
                ELSE
                With(readHeader_ds64(ch), LAMBDA d :
                With(uAdd(d.rh.cl_size, U(RIFF_CHUNK_DATA_OFFSET)), LAMBDA total :
                    IF d.r # RIFF_ERROR_NONE THEN d
                    ELSE IF d.rh.size # U(0) /\ d.rh.size # total
                    THEN [rh |-> fp_printf(d.rh),
                          r |-> IF uLe(total, d.rh.size)
                                THEN RIFF_ERROR_EXDAT ELSE RIFF_ERROR_EOF]
                    ELSE [rh |-> d.rh, r |-> RIFF_ERROR_NONE]))))))

\* f is the offset of the stream, which ftell() returns
riff_open_file(h, f, size) ==
    riff_readHeader([h EXCEPT !.fh = U(f), !.size = ufs(U(size)),
                              !.cl_pos_start = ufs(U(f)),
                              !.fp_read = "read_file", !.fp_seek = "seek_file"])

riff_open_mem(h, size) ==
    riff_readHeader([h EXCEPT !.fh = U(0), !.size = ufs(U(size)),
                              !.cl_pos_start = U(0),
                              !.fp_read = "read_mem", !.fp_seek = "seek_mem"])

\* riff_seekInChunk with a fault: the offset c_size is refused
seekInChunk_lt(h, c_pos) ==
    IF uLe(h.c_size, c_pos) THEN [rh |-> h, r |-> RIFF_ERROR_EOC]
    ELSE With(uAdd(uAdd(h.c_pos_start, U(RIFF_CHUNK_DATA_OFFSET)), c_pos), LAMBDA pos :
         [rh |-> fp_seek([h EXCEPT !.pos = pos, !.c_pos = c_pos], pos),
          r |-> RIFF_ERROR_NONE])

riff_seekInChunk(h, c_pos) ==
    IF uLt(h.c_size, c_pos) THEN [rh |-> h, r |-> RIFF_ERROR_EOC]
    ELSE With(uAdd(uAdd(h.c_pos_start, U(RIFF_CHUNK_DATA_OFFSET)), c_pos), LAMBDA pos :
         [rh |-> fp_seek([h EXCEPT !.pos = pos, !.c_pos = c_pos], pos),
          r |-> RIFF_ERROR_NONE])

\* riff_seekNextChunk with a fault: a list that ends at posnew is taken to have excess bytes
seekNextChunk_le(h) ==
    With(cposend(h), LAMBDA posnew :
        IF uLt(listend(h), uAdd(posnew, U(RIFF_CHUNK_DATA_OFFSET)))
        THEN IF uLe(posnew, listend(h)) THEN [rh |-> h, r |-> RIFF_ERROR_EXDAT]
             ELSE [rh |-> h, r |-> RIFF_ERROR_EOCL]
        ELSE riff_readChunkHeader(fp_seek([h EXCEPT !.pos = posnew, !.c_pos = U(0)],
                                          posnew)))

\* riff_seekNextChunk with a fault: at the end of the list it has moved to posnew
seekNextChunk_moves(h) ==
    With(cposend(h), LAMBDA posnew :
        IF uLt(listend(h), uAdd(posnew, U(RIFF_CHUNK_DATA_OFFSET)))
        THEN With(fp_seek([h EXCEPT !.pos = posnew, !.c_pos = U(0)], posnew), LAMBDA g :
                 IF uLt(posnew, listend(h)) THEN [rh |-> g, r |-> RIFF_ERROR_EXDAT]
                 ELSE [rh |-> g, r |-> RIFF_ERROR_EOCL])
        ELSE riff_readChunkHeader(fp_seek([h EXCEPT !.pos = posnew, !.c_pos = U(0)],
                                          posnew)))

riff_seekNextChunk(h) ==
    With(cposend(h), LAMBDA posnew :
        IF uLt(listend(h), uAdd(posnew, U(RIFF_CHUNK_DATA_OFFSET)))
        THEN IF uLt(posnew, listend(h)) THEN [rh |-> fp_printf(h), r |-> RIFF_ERROR_EXDAT]
             ELSE [rh |-> h, r |-> RIFF_ERROR_EOCL]
        ELSE riff_readChunkHeader(fp_seek([h EXCEPT !.pos = posnew, !.c_pos = U(0)],
                                          posnew)))

riff_seekChunkStart(h) ==
    With(uAdd(h.c_pos_start, U(RIFF_CHUNK_DATA_OFFSET)), LAMBDA pos :
        [rh |-> fp_seek([h EXCEPT !.pos = pos, !.c_pos = U(0)], pos),
         r |-> RIFF_ERROR_NONE])

riff_seekLevelStart(h) ==
    With(uAdd(uAdd(h.cl_pos_start, U(RIFF_CHUNK_DATA_OFFSET)), U(4)), LAMBDA pos :
        riff_readChunkHeader(fp_seek([h EXCEPT !.pos = pos, !.c_pos = U(0)], pos)))

\* the loop of riff_rewind with a fault: an if in place of the while
pop_once(h) == IF h.ls_level > 0 THEN stack_pop(h) ELSE h

RECURSIVE pop_all(_)
pop_all(h) == IF h.ls_level > 0 THEN pop_all(stack_pop(h)) ELSE h

riff_rewind(h) == riff_seekLevelStart(pop_all(h))

\* the seek back to the start of the chunk data that riff_seekLevelSub begins with
seekLevelSub_start(h) ==
    IF uLt(U(0), h.c_pos)
    THEN With(uAdd(h.c_pos_start, U(RIFF_CHUNK_DATA_OFFSET)), LAMBDA pos :
         [fp_seek(h, pos) EXCEPT !.pos = pos, !.c_pos = U(0)])
    ELSE h

riff_seekLevelSub(h) ==
    IF ~isListId(h.c_id) THEN [rh |-> fp_printf(h), r |-> RIFF_ERROR_ILLID]
    ELSE IF uLt(h.c_size, U(4)) THEN [rh |-> fp_printf(h), r |-> RIFF_ERROR_ICSIZE]
    ELSE
    With(fp_read(seekLevelSub_start(h), 4), LAMBDA rd :
    \* char type[5] = "": the bytes a short read leaves are 0
    With([i \in 1..4 |-> IF i <= Len(rd.buf) THEN rd.buf[i] ELSE 0], LAMBDA type :
    With([rd.rh EXCEPT !.pos = uAdd(@, U(4))], LAMBDA h2 :
        IF ~printable(type) THEN [rh |-> fp_printf(h2), r |-> RIFF_ERROR_ILLID]
        ELSE riff_readChunkHeader(stack_push(h2, type)))))

\* riff_levelParent with a fault: at the top level it reports success
levelParent_top_ok(h) ==
    IF h.ls_level <= 0 THEN [rh |-> h, r |-> RIFF_ERROR_NONE]
    ELSE [rh |-> stack_pop(h), r |-> RIFF_ERROR_NONE]

riff_levelParent(h) ==
    IF h.ls_level <= 0 THEN [rh |-> h, r |-> -1]
    ELSE [rh |-> stack_pop(h), r |-> RIFF_ERROR_NONE]

riff_seekLevelParentStart(h) ==
    With(riff_levelParent(h), LAMBDA p :
        IF p.r # RIFF_ERROR_NONE THEN p ELSE riff_seekChunkStart(p.rh))

riff_seekLevelParentNext(h) ==
    With(riff_levelParent(h), LAMBDA p :
        IF p.r # RIFF_ERROR_NONE THEN p ELSE riff_seekNextChunk(p.rh))

-----------------------------------------------------------------------------
(* riff.c, the validators and the counters.  A walk is followed until it *)
(* returns ("ret"), comes back to a state it was in, which the C loop    *)
(* then repeats for ever ("loop"), or has taken MaxWalk steps ("fuel").  *)

RECURSIVE levelValidate_loop(_, _, _)
levelValidate_loop(h, seen, fuel) ==
    IF h \in seen THEN [rh |-> h, r |-> RIFF_ERROR_NONE, st |-> "loop"]
    ELSE IF fuel = 0 THEN [rh |-> h, r |-> RIFF_ERROR_NONE, st |-> "fuel"]
    ELSE With(riff_seekNextChunk(h), LAMBDA s :
         IF s.r # RIFF_ERROR_NONE
         THEN [rh |-> s.rh, st |-> "ret",
               r |-> IF s.r = RIFF_ERROR_EOCL THEN RIFF_ERROR_NONE ELSE s.r]
         ELSE levelValidate_loop(s.rh, seen \cup {h}, fuel - 1))

\* riff_levelValidate with a fault: excess bytes at the end of the list count as success
levelValidate_exdat_ok(h) ==
    With(riff_seekLevelStart(h), LAMBDA s :
        IF s.r # RIFF_ERROR_NONE THEN [rh |-> s.rh, r |-> s.r, st |-> "ret"]
        ELSE With(levelValidate_loop(s.rh, {}, MaxWalk), LAMBDA v :
             IF v.r = RIFF_ERROR_EXDAT THEN [v EXCEPT !.r = RIFF_ERROR_NONE] ELSE v))

riff_levelValidate(h) ==
    With(riff_seekLevelStart(h), LAMBDA s :
        IF s.r # RIFF_ERROR_NONE THEN [rh |-> s.rh, r |-> s.r, st |-> "ret"]
        ELSE levelValidate_loop(s.rh, {}, MaxWalk))

\* the chunk a sub level is looked for in, riff.c line 603
canContainSubchunks(id) == ~(id # id_LIST /\ id # id_RIFF /\ id # id_BW64)

\* what a call ends with: the handle, the code, and the steps left to follow
Ended(h, r, fuel) == [rh |-> h, r |-> r, st |-> "ret", fuel |-> fuel]

RECURSIVE riff_recursiveLevelValidate(_, _)
riff_recursiveLevelValidate(h, fuel) ==
    IF fuel = 0 THEN [rh |-> h, r |-> RIFF_ERROR_NONE, st |-> "fuel", fuel |-> 0]
    ELSE
    With(riff_seekNextChunk(h), LAMBDA s :
        IF s.r = RIFF_ERROR_EOCL
        THEN With(riff_levelParent(s.rh), LAMBDA p : Ended(p.rh, p.r, fuel - 1))
        ELSE IF s.r # RIFF_ERROR_NONE THEN Ended(s.rh, s.r, fuel - 1)
        ELSE IF canContainSubchunks(s.rh.c_id)
        THEN With(riff_seekLevelSub(s.rh), LAMBDA t :
             IF t.r # RIFF_ERROR_NONE THEN Ended(t.rh, t.r, fuel - 1)
             ELSE With(riff_recursiveLevelValidate(t.rh, fuel - 1), LAMBDA u :
                  IF u.st # "ret" \/ u.r # RIFF_ERROR_NONE THEN u
                  ELSE riff_recursiveLevelValidate(u.rh, u.fuel)))
        ELSE riff_recursiveLevelValidate(s.rh, fuel - 1))

riff_fileValidate(h) ==
    With(riff_rewind(h), LAMBDA s :
        IF s.r # RIFF_ERROR_NONE THEN Ended(s.rh, s.r, MaxWalk)
        ELSE riff_recursiveLevelValidate(s.rh, MaxWalk))

\* the counting loop of both counters: id is <<>> to count every chunk.
\* e is the error code the walk ended with, n what the counter returns.
RECURSIVE amount_loop(_, _, _, _, _)
amount_loop(h, id, counter, seen, fuel) ==
    IF <<h, counter>> \in seen THEN [rh |-> h, n |-> counter, e |-> 0, st |-> "loop"]
    ELSE IF fuel = 0 THEN [rh |-> h, n |-> counter, e |-> 0, st |-> "fuel"]
    ELSE With(IF id = <<>> \/ h.c_id = id THEN counter + 1 ELSE counter, LAMBDA c :
         With(riff_seekNextChunk(h), LAMBDA s :
             IF s.r # RIFF_ERROR_NONE
             THEN [rh |-> s.rh, st |-> "ret", e |-> s.r,
                   n |-> IF s.r = RIFF_ERROR_EOCL THEN c ELSE -1]
             ELSE amount_loop(s.rh, id, c, seen \cup {<<h, counter>>}, fuel - 1)))

\* riff_amountOfChunksInLevel with a fault: the first chunk of the level is not counted
amountOfChunksInLevel_less(h) ==
    With(riff_seekLevelStart(h), LAMBDA s :
        IF s.r # RIFF_ERROR_NONE THEN [rh |-> s.rh, n |-> -1, e |-> s.r, st |-> "ret"]
        ELSE amount_loop(s.rh, <<>>, -1, {}, MaxWalk))

riff_amountOfChunksInLevel(h) ==
    With(riff_seekLevelStart(h), LAMBDA s :
        IF s.r # RIFF_ERROR_NONE THEN [rh |-> s.rh, n |-> -1, e |-> s.r, st |-> "ret"]
        ELSE amount_loop(s.rh, <<>>, 0, {}, MaxWalk))

riff_amountOfChunksInLevelWithID(h, id) ==
    With(riff_seekLevelStart(h), LAMBDA s :
        IF s.r # RIFF_ERROR_NONE THEN [rh |-> s.rh, n |-> -1, e |-> s.r, st |-> "ret"]
        ELSE amount_loop(s.rh, id, 0, {}, MaxWalk))

-----------------------------------------------------------------------------
(* The state machine: a caller that allocates a handle, opens it on a source *)
(* and calls the entry points in any order.  After a critical error the      *)
(* state of the handle is undefined and the caller calls nothing more.       *)

\* what read_mem may find outside the memory block
OobBytes == {0, 65}

Init ==
    /\ RIFF_64BIT_FILESIZE_SUPPORT \in BOOLEAN
    /\ start \in {0, MaxStart}
    /\ \E src \in Sources : data = Prefix(start) \o src
    /\ oob \in (IF start = 0 THEN OobBytes ELSE {0})
    /\ rh = riff_handleAllocate
    /\ opened = [rh |-> riff_handleAllocate, r |-> RIFF_ERROR_NONE]
    /\ op = "riff_handleAllocate"
    /\ ret = RIFF_ERROR_NONE
    /\ out = <<>>
    /\ crit = FALSE
    /\ hung = FALSE

IsOpen == rh.fp_read # "NULL" /\ ~crit /\ ~hung

\* control is with the caller, whether the handle was opened or not
Callable == ~crit /\ ~hung

\* A handle that was allocated and never opened: fp_read and fp_seek are the null
\* pointers of calloc (riff.c 280).  No function but riff_readHeader tests them,
\* so a function that reaches rh->fp_read(...) or rh->fp_seek(...) calls through a
\* null pointer.  This is undefined behaviour: the call does not return, and the
\* stores that precede it in the function, to pos and c_pos, may or may not have
\* been done.  op and ret stay those of the last call that returned.
NullCall(pos) ==
    /\ rh.fp_read = "NULL" /\ Callable
    /\ rh' \in {rh, [rh EXCEPT !.pos = pos, !.c_pos = U(0)]}
    /\ hung' = TRUE
    /\ UNCHANGED <<RIFF_64BIT_FILESIZE_SUPPORT, data, oob, opened, op, ret, out, crit, start>>

\* the call of name returned s.r and left the handle s.rh
Returns(name, s) ==
    /\ rh' = s.rh
    /\ op' = name
    /\ ret' = s.r
    /\ out' = <<>>
    /\ crit' = (s.r >= RIFF_ERROR_CRITICAL)
    /\ hung' = FALSE
    /\ UNCHANGED <<RIFF_64BIT_FILESIZE_SUPPORT, data, oob, opened, start>>

\* a walk: returns, never returns, or is outside the bound MaxWalk
Walks(name, s, r, critical) ==
    /\ s.st # "fuel"
    /\ rh' = s.rh
    /\ op' = name
    /\ ret' = r
    /\ out' = <<>>
    /\ crit' = critical
    /\ hung' = (s.st = "loop")
    /\ UNCHANGED <<RIFF_64BIT_FILESIZE_SUPPORT, data, oob, opened, start>>

Opens(name, s) ==
    /\ rh' = s.rh
    /\ opened' = [rh |-> s.rh, r |-> s.r]
    /\ op' = name
    /\ ret' = s.r
    /\ crit' = (s.r >= RIFF_ERROR_CRITICAL)
    /\ UNCHANGED <<RIFF_64BIT_FILESIZE_SUPPORT, data, oob, out, hung, start>>

\* the stream is positioned at the start of the RIFF data; the size given is that
\* of the file, or 0 for unknown.  (No read of the file adapter depends on oob.)
\* the size given for a file: unknown (0), or exact when the file is only RIFF data
FileSizes == IF start = 0 THEN {0, Len(data)} ELSE {0}

OpenFile ==
    /\ rh.fp_read = "NULL" /\ ~hung
    /\ oob = 0
    /\ \E size \in FileSizes : Opens("riff_open_file", riff_open_file(rh, start, size))

\* the memory block starts with the RIFF data; its size is given and is > 0
OpenMem ==
    /\ rh.fp_read = "NULL" /\ ~hung
    /\ start = 0
    /\ Len(data) > 0
    /\ Opens("riff_open_mem", riff_open_mem(rh, Len(data)))

ReadInChunk ==
    \/ /\ IsOpen
       /\ uLe(rh.c_pos, U(MaxPos))
       /\ \E size \in 0..MaxRead :
            \E s \in {riff_readInChunk(rh, size)} :
                /\ rh' = s.rh
                /\ op' = "riff_readInChunk"
                /\ ret' = s.n
                /\ out' = s.buf
       /\ UNCHANGED <<RIFF_64BIT_FILESIZE_SUPPORT, data, oob, opened, crit, hung, start>>
    \/ NullCall(rh.pos)

SeekOffsets == {U(i) : i \in 0..MaxSeek} \cup {rh.c_size, uAdd(rh.c_size, U(1))}

SeekInChunk ==
    \E c_pos \in SeekOffsets :
        IF rh.fp_seek = "NULL" /\ uLe(c_pos, rh.c_size)
        THEN NullCall(uAdd(uAdd(rh.c_pos_start, U(RIFF_CHUNK_DATA_OFFSET)), c_pos))
        ELSE Callable /\ Returns("riff_seekInChunk", riff_seekInChunk(rh, c_pos))

SeekNextChunk == Callable /\ Returns("riff_seekNextChunk", riff_seekNextChunk(rh))

SeekChunkStart ==
    \/ IsOpen /\ Returns("riff_seekChunkStart", riff_seekChunkStart(rh))
    \/ NullCall(uAdd(rh.c_pos_start, U(RIFF_CHUNK_DATA_OFFSET)))

\* the position of the first chunk of the current list
LevelStart(h) == uAdd(uAdd(h.cl_pos_start, U(RIFF_CHUNK_DATA_OFFSET)), U(4))

SeekLevelStart ==
    \/ IsOpen /\ Returns("riff_seekLevelStart", riff_seekLevelStart(rh))
    \/ NullCall(LevelStart(rh))

SeekLevelSub == Callable /\ Returns("riff_seekLevelSub", riff_seekLevelSub(rh))

LevelParent == Callable /\ Returns("riff_levelParent", riff_levelParent(rh))

SeekLevelParentStart ==
    Callable /\ Returns("riff_seekLevelParentStart", riff_seekLevelParentStart(rh))

SeekLevelParentNext ==
    Callable /\ Returns("riff_seekLevelParentNext", riff_seekLevelParentNext(rh))

Rewind ==
    \/ IsOpen /\ Returns("riff_rewind", riff_rewind(rh))
    \/ NullCall(LevelStart(rh))

LevelValidate ==
    \/ /\ IsOpen
       /\ \E s \in {riff_levelValidate(rh)} :
            Walks("riff_levelValidate", s, s.r, s.r >= RIFF_ERROR_CRITICAL)
    \/ NullCall(LevelStart(rh))

FileValidate ==
    \/ /\ IsOpen
       /\ \E s \in {riff_fileValidate(rh)} :
            Walks("riff_fileValidate", s, s.r, s.r >= RIFF_ERROR_CRITICAL)
    \/ NullCall(LevelStart(rh))

AmountOfChunksInLevel ==
    \/ /\ IsOpen
       /\ \E s \in {riff_amountOfChunksInLevel(rh)} :
            Walks("riff_amountOfChunksInLevel", s, s.n, s.e >= RIFF_ERROR_CRITICAL)
    \/ NullCall(LevelStart(rh))

\* the ids counted
CountIds == {id_fmt}

AmountOfChunksInLevelWithID ==
    \/ /\ IsOpen
       /\ \E id \in CountIds :
            \E s \in {riff_amountOfChunksInLevelWithID(rh, id)} :
                Walks("riff_amountOfChunksInLevelWithID", s, s.n, s.e >= RIFF_ERROR_CRITICAL)
    \/ NullCall(LevelStart(rh))

Next ==
    \/ OpenFile
    \/ OpenMem
    \/ ReadInChunk
    \/ SeekInChunk
    \/ SeekNextChunk
    \/ SeekChunkStart
    \/ SeekLevelStart
    \/ SeekLevelSub
    \/ LevelParent
    \/ SeekLevelParentStart
    \/ SeekLevelParentNext
    \/ Rewind
    \/ LevelValidate
    \/ FileValidate
    \/ AmountOfChunksInLevel
    \/ AmountOfChunksInLevelWithID

Spec == Init /\ [][Next]_vars

\* The source Deep, and the functions that move between the levels: the level
\* stack grows past its first allocation.
InitDeep ==
    /\ RIFF_64BIT_FILESIZE_SUPPORT \in BOOLEAN
    /\ start = 0
    /\ data = Deep
    /\ oob = 0
    /\ rh = riff_handleAllocate
    /\ opened = [rh |-> riff_handleAllocate, r |-> RIFF_ERROR_NONE]
    /\ op = "riff_handleAllocate"
    /\ ret = RIFF_ERROR_NONE
    /\ out = <<>>
    /\ crit = FALSE
    /\ hung = FALSE

NextDeep ==
    \/ OpenFile
    \/ OpenMem
    \/ SeekNextChunk
    \/ SeekLevelSub
    \/ LevelParent
    \/ SeekLevelParentStart
    \/ SeekLevelParentNext
    \/ Rewind

SpecDeep == InitDeep /\ [][NextDeep]_vars

-----------------------------------------------------------------------------
(* riff.hpp, class RIFFHandle: the members rh and __latestError.  A method is an *)
(* operator from the object to [w: the object afterwards, r: what it returns].   *)

RIFFHandle(h, e) == [rh |-> h, latestError |-> e]

\* inline int m () {return __latestError = riff_m (rh);}, s the result of riff_m
RIFFHandle_stores(w, s) ==
    [w |-> [rh |-> s.rh, latestError |-> s.r], r |-> s.r]

\* inline size_t readInChunk (to, size) {return __latestError = riff_readInChunk (rh, to, size);}
RIFFHandle_readInChunk(w, size) ==
    With(riff_readInChunk(w.rh, size), LAMBDA s :
        [w |-> [rh |-> s.rh, latestError |-> s.n], r |-> s.n, buf |-> s.buf])

\* inline int32_t amountOfChunksInLevel () {return riff_amountOfChunksInLevel(rh);}
RIFFHandle_amountOfChunksInLevel(w) ==
    With(riff_amountOfChunksInLevel(w.rh), LAMBDA s :
        [w |-> [rh |-> s.rh, latestError |-> w.latestError], r |-> s.n, e |-> s.e,
         st |-> s.st])

RIFFHandle_amountOfChunksInLevelWithID(w, id) ==
    With(riff_amountOfChunksInLevelWithID(w.rh, id), LAMBDA s :
        [w |-> [rh |-> s.rh, latestError |-> w.latestError], r |-> s.n, e |-> s.e,
         st |-> s.st])

\* calloc(1, sizeof(riff_handle)): every field 0, the print hook too
calloc_handle == [riff_handleAllocate EXCEPT !.fp_printf = "NULL"]

\* a = b of two objects, RIFFHandle::operator = (const RIFFHandle &rhs):
\*   newrh = calloc(...);  memcpy(rh, rhs.rh, ...) copies the handle of b into
\*   the handle a had, its pointer ls to the level stack of b included;
\*   newrh->ls is null, so no stack is allocated for newrh;
\*   die() frees rh->ls, the level stack of b when b has one, and rh;
\*   memcpy(this, &rhs, ...); rh = newrh.
\* The result: the objects a and b, and whether the level stack of b was freed.
RIFFHandle_assign(a, b) ==
    With(b.rh, LAMBDA copied :
        [ a |-> [rh |-> calloc_handle, latestError |-> b.latestError],
          b |-> b,
          ls_freed |-> copied.ls_size > 0 ])

-----------------------------------------------------------------------------
(* Properties.  Sums and comparisons of handle fields are those of riff_ufs_t, *)
(* the type of the fields, as a C expression over them computes.  A state in   *)
(* which control is with the caller and no critical error has been returned is *)
(* a state that satisfies Returned.                                            *)

Returned == rh.fp_read # "NULL" /\ ~crit /\ ~hung

\* the end of the current chunk (its pad byte included) and that of a list frame
ChunkEnd(h) ==
    uAdd(uAdd(uAdd(h.c_pos_start, U(RIFF_CHUNK_DATA_OFFSET)), h.c_size), U(h.pad))

FrameEnd(f) == uAdd(uAdd(f.cl_pos_start, U(RIFF_CHUNK_DATA_OFFSET)), f.cl_size)

\* the list frames from the outermost, 1, to the current one, ls_level + 1
Frame(h, i) == IF i = h.ls_level + 1 THEN h ELSE h.ls[i]

Ascii(id) == \A i \in 1..4 : id[i] >= 32 /\ id[i] <= 126

\* C1: whenever control is with the caller and no critical error has been
\* returned, pos = c_pos_start + 8 + c_pos
C1_Position ==
    Returned =>
        rh.pos = uAdd(uAdd(rh.c_pos_start, U(RIFF_CHUNK_DATA_OFFSET)), rh.c_pos)

\* riff_levelParent has recomputed c_pos from a position inside the sub list
C1_Witness ==
    /\ Returned
    /\ op = "riff_levelParent" /\ ret = RIFF_ERROR_NONE
    /\ uLt(U(12), rh.c_pos)

\* C2: whenever no critical error has been returned, 0 <= c_pos <= c_size and
\* pad = c_size mod 2, also right after riff_levelParent
C2_InChunk ==
    Returned => uLe(rh.c_pos, rh.c_size) /\ rh.pad = rh.c_size[1] % 2

\* C3: whenever no critical error has been returned, the current chunk ends
\* inside the current list: c_pos_start + 8 + c_size + pad <= cl_pos_start + 8 + cl_size
C3_ChunkInList ==
    Returned => uLe(ChunkEnd(rh), FrameEnd(rh))

C5_PrintableIds ==
    Returned =>
        /\ Ascii(rh.c_id)
        /\ \A i \in 1..(rh.ls_level + 1) : Ascii(Frame(rh, i).cl_id)

\* riff_seekLevelSub has entered a list
C5_Witness ==
    Returned /\ op = "riff_seekLevelSub" /\ ret = RIFF_ERROR_NONE /\ rh.ls_level = 1

\* the scalars of the navigator state
Scalars(h) ==
    [ c_id |-> h.c_id, c_size |-> h.c_size, c_pos_start |-> h.c_pos_start,
      c_pos |-> h.c_pos, pad |-> h.pad, pos |-> h.pos,
      cl_id |-> h.cl_id, cl_size |-> h.cl_size, cl_type |-> h.cl_type,
      cl_pos_start |-> h.cl_pos_start, ls_level |-> h.ls_level ]

\* C6, as stated: where riff_seekLevelSub succeeds, riff_seekLevelSub and then
\* riff_levelParent leave every scalar of the navigator state as it was
C6_RoundTrip ==
    Returned =>
        \A s \in {riff_seekLevelSub(rh)} :
            s.r = RIFF_ERROR_NONE => Scalars(riff_levelParent(s.rh).rh) = Scalars(rh)

\* C6, amended: where riff_seekLevelSub succeeds, riff_seekLevelSub and then
\* riff_levelParent succeed and leave the current chunk, the current list frame,
\* ls_level and the level stack as they were; the position is not restored: it
\* is that behind the header of the list's first child, pos = c_pos_start + 20
\* and c_pos = 12
C6_RoundTripFrames ==
    Returned =>
        \A s \in {riff_seekLevelSub(rh)} :
            s.r = RIFF_ERROR_NONE =>
                \A p \in {riff_levelParent(s.rh)} :
                    /\ p.r = RIFF_ERROR_NONE
                    /\ Scalars(p.rh) =
                           [Scalars(rh) EXCEPT !.c_pos = U(12),
                                               !.pos = uAdd(rh.c_pos_start, U(20))]
                    /\ p.rh.ls = rh.ls

\* riff_levelParent has left the list that riff_seekLevelSub entered from
\* inside the data of the list chunk
C6_Witness ==
    /\ Returned
    /\ op = "riff_levelParent" /\ ret = RIFF_ERROR_NONE
    /\ rh.c_pos = U(12) /\ rh.pos = uAdd(rh.c_pos_start, U(20))
    /\ rh.ls_level = 1

\* C7, as stated: after riff_rewind has returned without error, ls_level = 0
\* and pos = cl_pos_start + 12
C7_RewindPos ==
    op = "riff_rewind" /\ ret = RIFF_ERROR_NONE =>
        rh.ls_level = 0 /\ rh.pos = uAdd(rh.cl_pos_start, U(12))

\* C7, amended: after riff_rewind has returned without error, ls_level = 0 and
\* the header of the first chunk has been read: c_pos_start = cl_pos_start + 12,
\* c_pos = 0 and pos = cl_pos_start + 20
C7_RewindFirstChunk ==
    op = "riff_rewind" /\ ret = RIFF_ERROR_NONE =>
        /\ rh.ls_level = 0
        /\ rh.ls = <<>>
        /\ rh.c_pos_start = uAdd(rh.cl_pos_start, U(RIFF_HEADER_SIZE))
        /\ rh.c_pos = U(0)
        /\ rh.pos = uAdd(rh.cl_pos_start, U(RIFF_HEADER_SIZE + RIFF_CHUNK_DATA_OFFSET))

\* riff_rewind has returned without error on a handle that had entered a list
C7_Witness ==
    op = "riff_rewind" /\ ret = RIFF_ERROR_NONE /\ rh.ls_size = RIFF_LEVEL_ALLOC

\* C8: after a successful open, a riff_rewind that succeeds leaves pos, the
\* current chunk, the current list frame and ls_level as the open left them
C8_RewindRestores ==
    op = "riff_rewind" /\ ret = RIFF_ERROR_NONE /\ opened.r = RIFF_ERROR_NONE =>
        Scalars(rh) = Scalars(opened.rh)

\* C9: with next = c_pos_start + 8 + c_size + pad and listend = cl_pos_start + 8 +
\* cl_size, riff_seekNextChunk returns EOCL when next + 8 > listend and next >=
\* listend, EXDAT when next < listend < next + 8, both without a change of the
\* handle; otherwise it seeks to next and reads a chunk header there
C9_SeekNextChunk ==
    Returned =>
        \A s \in {riff_seekNextChunk(rh)} :
            LET next == ChunkEnd(rh)
                lend == FrameEnd(rh)
                next8 == uAdd(next, U(RIFF_CHUNK_DATA_OFFSET))
            IN  IF uLt(lend, next8) /\ uLe(lend, next)
                THEN s.r = RIFF_ERROR_EOCL /\ s.rh = rh
                ELSE IF uLt(next, lend) /\ uLt(lend, next8)
                THEN s.r = RIFF_ERROR_EXDAT /\ s.rh = rh
                ELSE /\ s.r \notin {RIFF_ERROR_EOCL, RIFF_ERROR_EXDAT}
                     /\ s.r # RIFF_ERROR_EOF =>
                            /\ s.rh.c_pos_start = next
                            /\ s.rh.pos = next8
                            /\ s.rh.c_pos = U(0)
                     /\ s.rh.fp_read = "read_file" /\ next[4] < 2^15 =>
                            \E n \in 0..8 : s.rh.fh = uAdd64(next, U(n))

\* riff_seekNextChunk has found stray bytes at the end of the list
C9_Witness ==
    Returned /\ op = "riff_seekNextChunk" /\ ret = RIFF_ERROR_EXDAT

\* C10: a riff_seekNextChunk that succeeds moves to the chunk that follows in
\* the file: its c_pos_start is that of the chunk before + 8 + c_size +
\* (c_size mod 2), and no chunk is visited again
C10_InOrder ==
    [][ op' = "riff_seekNextChunk" /\ ret' = RIFF_ERROR_NONE =>
          /\ rh'.c_pos_start =
                 uAdd(uAdd(uAdd(rh.c_pos_start, U(RIFF_CHUNK_DATA_OFFSET)), rh.c_size),
                      U(rh.c_size[1] % 2))
          /\ uLt(rh.c_pos_start, rh'.c_pos_start) ]_vars

\* the n bytes of the byte source from offset p on; <<>> when fewer are there
SourceBytes(p, n) ==
    IF uSmall(p) /\ uInt(p) + n <= Len(data)
    THEN SubSeq(data, uInt(p) + 1, uInt(p) + n) ELSE <<>>

\* a 32-bit little-endian size field as a riff_ufs_t
LE32(b) == ufs(<<b[1] + 256 * b[2], b[3] + 256 * b[4], 0, 0>>)

\* the end of the chunk whose 8 byte header b lies at position p
HeaderEnd(p, b) ==
    uAdd(uAdd(uAdd(p, U(8)), LE32(SubSeq(b, 5, 8))), U(b[5] % 2))

\* the result C11 states for a chunk header read at position p (offset src of
\* the byte source) in a list that ends at lend, with the file size fsize
HeaderCode(src, p, lend, fsize) ==
    IF SourceBytes(src, 8) = <<>> THEN RIFF_ERROR_EOF
    ELSE IF ~Ascii(SubSeq(SourceBytes(src, 8), 1, 4)) THEN RIFF_ERROR_ILLID
    ELSE IF uLt(lend, HeaderEnd(p, SourceBytes(src, 8))) THEN RIFF_ERROR_ICSIZE
    ELSE IF uLt(U(0), fsize) /\ uLt(fsize, HeaderEnd(p, SourceBytes(src, 8)))
    THEN RIFF_ERROR_EOF
    ELSE RIFF_ERROR_NONE

\* the position of the first chunk of the current list
LevelFirst(h) == uAdd(h.cl_pos_start, U(12))

\* an open has read the outer header and has gone on to the first chunk header
AtOpen ==
    /\ op \in {"riff_open_file", "riff_open_mem"}
    /\ SourceBytes(U(start), 12) # <<>>
    /\ SubSeq(data, start + 1, start + 4) \in {id_RIFF, id_BW64}

OpenCode ==
    HeaderCode(U(start + 12), U(12),
               uAdd(uAdd(rh.cl_pos_start, U(8)), LE32(SubSeq(data, start + 5, start + 8))),
               rh.size)

\* C11: a chunk header read, at open and in riff_seekLevelStart, riff_seekNextChunk
\* and riff_seekLevelSub, returns EOF when fewer than 8 bytes are there, else ILLID
\* when an id byte is outside 0x20..0x7E, else ICSIZE when the chunk ends behind
\* its list, else EOF when a file size is given and the chunk ends behind it, and
\* success only when none of these holds
C11_HeaderCodes ==
    /\ AtOpen /\ OpenCode # RIFF_ERROR_NONE => ret = OpenCode
    /\ AtOpen /\ ret = RIFF_ERROR_NONE => OpenCode = RIFF_ERROR_NONE
    /\ Returned =>
        /\ riff_seekLevelStart(rh).r =
               HeaderCode(LevelFirst(rh), LevelFirst(rh), FrameEnd(rh), rh.size)
        /\ \A s \in {riff_seekNextChunk(rh)} :
               s.r \notin {RIFF_ERROR_EOCL, RIFF_ERROR_EXDAT} =>
                   s.r = HeaderCode(ChunkEnd(rh), ChunkEnd(rh), FrameEnd(rh), rh.size)
        /\ \A s \in {riff_seekLevelSub(rh)} :
               s.rh.ls_level = rh.ls_level + 1 =>
                   s.r = HeaderCode(uAdd(rh.c_pos_start, U(12)), uAdd(rh.c_pos_start, U(12)),
                                    uAdd(uAdd(rh.c_pos_start, U(8)), rh.c_size), rh.size)

\* C12: riff_seekInChunk(offset) succeeds exactly when offset <= c_size, and then
\* pos = c_pos_start + 8 + offset and c_pos = offset (the file stream is at pos);
\* for an offset > c_size it returns EOC and changes no field of the handle and
\* not the position of the byte source
C12_SeekInChunk ==
    Returned =>
        \A k \in SeekOffsets :
            \A s \in {riff_seekInChunk(rh, k)} :
                IF uLe(k, rh.c_size)
                THEN /\ s.r = RIFF_ERROR_NONE
                     /\ s.rh.pos = uAdd(uAdd(rh.c_pos_start, U(RIFF_CHUNK_DATA_OFFSET)), k)
                     /\ s.rh.c_pos = k
                     /\ s.rh.fp_seek = "seek_file" /\ s.rh.pos[4] < 2^15 => s.rh.fh = s.rh.pos
                ELSE s.r = RIFF_ERROR_EOC /\ s.rh = rh

\* riff_seekInChunk has moved to the end of the data of a chunk that is not empty
C12_Witness ==
    /\ Returned
    /\ op = "riff_seekInChunk" /\ ret = RIFF_ERROR_NONE
    /\ rh.c_pos = rh.c_size /\ uLt(U(0), rh.c_size)

\* C13: riff_readInChunk(dst, size) returns at most size bytes and no more than
\* are left in the chunk, advances pos and c_pos by the number of bytes returned
\* and changes nothing else of the navigator; afterwards c_pos <= c_size and
\* pos <= c_pos_start + 8 + c_size (the pad byte is not read); in a chunk with
\* c_size = 0 or with c_pos = c_size it returns 0
C13_ReadInChunk ==
    Returned =>
        \A size \in 0..MaxRead :
            \A s \in {riff_readInChunk(rh, size)} :
                /\ s.n = Len(s.buf) /\ s.n <= size
                /\ s.rh.pos = uAdd(rh.pos, U(s.n))
                /\ s.rh.c_pos = uAdd(rh.c_pos, U(s.n))
                /\ [s.rh EXCEPT !.pos = rh.pos, !.c_pos = rh.c_pos, !.fh = rh.fh,
                                !.oob_read = rh.oob_read] = rh
                /\ uLe(s.rh.c_pos, rh.c_size)
                /\ uLe(s.rh.pos, uAdd(uAdd(rh.c_pos_start, U(RIFF_CHUNK_DATA_OFFSET)),
                                      rh.c_size))
                /\ (rh.c_size = U(0) \/ rh.c_pos = rh.c_size) => s.n = 0

\* the bytes of the byte source at the offsets p .. p + n - 1, as far as it has them
SourceFrom(p, n) ==
    IF uSmall(p) /\ uInt(p) < Len(data)
    THEN SubSeq(data, uInt(p) + 1, Min(uInt(p) + n, Len(data))) ELSE <<>>

\* min(k + n, c_size) - k, for an offset k <= c_size
DataLeft(h, k, n) == IF uLt(uSub(h.c_size, k), U(n)) THEN uInt(uSub(h.c_size, k)) ELSE n

\* C14: for every offset k <= c_size and every n, riff_seekInChunk(k) and then
\* riff_readInChunk(buf, n) return the bytes of the source at the offsets
\* c_pos_start + 8 + k up to c_pos_start + 8 + min(k + n, c_size), with the file
\* adapter and with the memory adapter, whatever was called before
C14_SeekThenRead ==
    Returned =>
        \A k \in {x \in SeekOffsets : uLe(x, rh.c_size)} : \A n \in 0..MaxRead :
            \A s \in {riff_readInChunk(riff_seekInChunk(rh, k).rh, n)} :
                /\ s.buf = SourceFrom(uAdd(uAdd(rh.c_pos_start, U(RIFF_CHUNK_DATA_OFFSET)), k),
                                      DataLeft(rh, k, n))
                /\ s.n = Len(s.buf)

\* the outer id of the source, and the ids C15 says an open accepts
OuterId == SubSeq(data, start + 1, start + 4)

AcceptedOuterIds ==
    IF RIFF_64BIT_FILESIZE_SUPPORT THEN {id_RIFF, id_BW64} ELSE {id_RIFF}

\* C15: an open that has read the 12 bytes of the outer header returns ILLID
\* unless the outer id is "RIFF" or "BW64", and "BW64" is accepted only in a
\* build with RIFF_64BIT_FILESIZE_SUPPORT
C15_OuterId ==
    /\ op \in {"riff_open_file", "riff_open_mem"}
    /\ SourceBytes(U(start), RIFF_HEADER_SIZE) # <<>>
    /\ OuterId \notin AcceptedOuterIds
    => ret = RIFF_ERROR_ILLID

\* the size field of the outer header, the id of the first chunk and the 64-bit
\* value in the first 8 bytes of its data, as the source has them
OuterSize == <<data[start + 5] + 256 * data[start + 6],
               data[start + 7] + 256 * data[start + 8], 0, 0>>

FirstId == SubSeq(data, start + 13, start + 16)

FirstData64 == <<data[start + 21] + 256 * data[start + 22],
                 data[start + 23] + 256 * data[start + 24],
                 data[start + 25] + 256 * data[start + 26],
                 data[start + 27] + 256 * data[start + 28]>>

OpenedOk == op \in {"riff_open_file", "riff_open_mem"} /\ ret = RIFF_ERROR_NONE

Declared == uAdd64(rh.cl_size, U(RIFF_CHUNK_DATA_OFFSET))

DeclaredOver == uLt(Declared, rh.cl_size)

\* an open has got a valid first chunk header and, where it reads the ds64
\* chunk, the 8 bytes of it
FirstChunkValid == AtOpen /\ OpenCode = RIFF_ERROR_NONE /\ ret # RIFF_ERROR_ICSIZE

\* C17: an open with a valid first chunk header and a file size > 0 returns
\* success when the file size is cl_size + 8, EXDAT when it is larger (the source
\* is larger than declared) and EOF when it is smaller (more is declared than
\* there is); with the file size 0 nothing is compared
C17_FileSize ==
    FirstChunkValid =>
        IF rh.size = U(0) THEN ret = RIFF_ERROR_NONE
        ELSE IF ~DeclaredOver /\ rh.size = Declared THEN ret = RIFF_ERROR_NONE
        ELSE IF ~DeclaredOver /\ uLt(Declared, rh.size) THEN ret = RIFF_ERROR_EXDAT
        ELSE ret = RIFF_ERROR_EOF

\* the 4 bytes riff_seekLevelSub reads as the type of the list: those at the
\* start of the chunk data, where the file stream is when c_pos = 0
TypeAt(h) ==
    SourceBytes(IF h.fp_read = "read_file" /\ h.c_pos = U(0) THEN h.fh
                ELSE uAdd(h.c_pos_start, U(RIFF_CHUNK_DATA_OFFSET)), 4)

\* what C18 states of riff_seekLevelSub, with ids as the list ids
SeekLevelSubChecks(ids) ==
    \A s \in {riff_seekLevelSub(rh)} :
        /\ rh.c_id \notin ids => s.r = RIFF_ERROR_ILLID /\ s.rh = rh
        /\ rh.c_id \in ids /\ uLt(rh.c_size, U(4)) => s.r = RIFF_ERROR_ICSIZE /\ s.rh = rh
        /\ rh.c_id \in ids /\ uLe(U(4), rh.c_size) /\ TypeAt(rh) # <<>> /\ ~Ascii(TypeAt(rh))
               => s.r = RIFF_ERROR_ILLID /\ s.rh.ls_level = rh.ls_level
        /\ s.rh.ls_level # rh.ls_level =>
               /\ s.rh.ls_level = rh.ls_level + 1
               /\ rh.c_id \in ids /\ uLe(U(4), rh.c_size)
               /\ Ascii(TypeAt(rh)) /\ s.rh.cl_type = TypeAt(rh)

C19_ParentAtTop ==
    Returned /\ rh.ls_level = 0 =>
        \A s \in {riff_levelParent(rh), riff_seekLevelParentStart(rh),
                  riff_seekLevelParentNext(rh)} :
            /\ s.r # RIFF_ERROR_NONE
            /\ s.r < RIFF_ERROR_CRITICAL
            /\ s.rh = rh

\* riff_seekLevelParentNext has been called at depth 0, not at the start of a chunk
C19_Witness ==
    /\ Returned
    /\ op = "riff_seekLevelParentNext" /\ ret # RIFF_ERROR_NONE
    /\ rh.ls_level = 0 /\ rh.ls_size = 0 /\ uLt(U(0), rh.c_pos)

\* what riff_levelParent does to the handle h at depth >= 1
Popped(h) ==
    \A s \in {riff_levelParent(h)} :
        /\ s.r = RIFF_ERROR_NONE
        /\ s.rh.pos = h.pos /\ s.rh.fh = h.fh
        /\ s.rh.ls_level = h.ls_level - 1
        /\ s.rh.c_id = h.cl_id /\ s.rh.c_size = h.cl_size
        /\ s.rh.c_pos_start = h.cl_pos_start /\ s.rh.pad = h.cl_size[1] % 2
        /\ s.rh.cl_id = h.ls[h.ls_level].cl_id
        /\ s.rh.cl_size = h.ls[h.ls_level].cl_size
        /\ s.rh.cl_type = h.ls[h.ls_level].cl_type
        /\ s.rh.cl_pos_start = h.ls[h.ls_level].cl_pos_start
        /\ s.rh.c_pos = uSub(uSub(h.pos, h.cl_pos_start), U(RIFF_CHUNK_DATA_OFFSET))

\* a riff_seekLevelSub has entered a list: the list it has made the current
\* frame is the chunk it was called on, and the frame it has put on top of the
\* level stack is the one that was current
Entered ==
    op' = "riff_seekLevelSub" /\ rh'.ls_level = rh.ls_level + 1 /\ ~crit' =>
        /\ rh'.cl_id = rh.c_id /\ rh'.cl_size = rh.c_size
        /\ rh'.cl_pos_start = rh.c_pos_start /\ rh'.cl_size[1] % 2 = rh.pad
        /\ rh'.ls[rh'.ls_level].cl_id = rh.cl_id
        /\ rh'.ls[rh'.ls_level].cl_size = rh.cl_size
        /\ rh'.ls[rh'.ls_level].cl_type = rh.cl_type
        /\ rh'.ls[rh'.ls_level].cl_pos_start = rh.cl_pos_start

\* C20: at depth >= 1 riff_levelParent succeeds and leaves pos and the position
\* of the byte source unchanged, takes one from ls_level, makes the current list
\* frame the current chunk (c_id, c_size, c_pos_start, pad = c_size mod 2), makes
\* the frame on top of the level stack the current list frame, and sets
\* c_pos = pos - c_pos_start - 8; the former is the list chunk that was entered
\* and the latter the frame that was current before that riff_seekLevelSub
C20_LevelParent ==
    /\ [](Returned /\ rh.ls_level >= 1 => Popped(rh))
    /\ [][Entered]_vars

\* riff_levelParent has left an inner list in which bytes of a chunk had been read
C20_Witness ==
    /\ Returned
    /\ op = "riff_levelParent" /\ ret = RIFF_ERROR_NONE
    /\ rh.ls_level = 1 /\ rh.pad = 0 /\ uLt(U(12), rh.c_pos)

\* the walk of a level from the chunk of h on: riff_seekNextChunk until it does
\* not succeed, n + 1 times at most.  path holds the handle at each chunk that
\* is visited, r and rh are the result and the handle of the call that ended
\* the walk, and ended says that there was one.
RECURSIVE WalkFrom(_, _)
WalkFrom(h, n) ==
    With(riff_seekNextChunk(h), LAMBDA s :
        IF s.r # RIFF_ERROR_NONE
        THEN [path |-> <<h>>, r |-> s.r, rh |-> s.rh, ended |-> TRUE]
        ELSE IF n = 0
        THEN [path |-> <<h>>, r |-> s.r, rh |-> s.rh, ended |-> FALSE]
        ELSE With(WalkFrom(s.rh, n - 1), LAMBDA w : [w EXCEPT !.path = <<h>> \o @]))

\* the walk of the current level of h from riff_seekLevelStart on
LevelWalk(h) ==
    With(riff_seekLevelStart(h), LAMBDA s :
        IF s.r # RIFF_ERROR_NONE
        THEN [path |-> <<>>, r |-> s.r, rh |-> s.rh, ended |-> TRUE]
        ELSE WalkFrom(s.rh, MaxWalk))

\* what C21 states of a riff_levelValidate that returns, others being the
\* results below RIFF_ERROR_CRITICAL that it may return besides success
LevelValidateReturns(others) ==
    \A v \in {riff_levelValidate(rh)} : \A w \in {LevelWalk(rh)} :
        v.st = "ret" =>
            /\ w.ended /\ v.rh = w.rh
            /\ v.r = RIFF_ERROR_NONE <=> w.r = RIFF_ERROR_EOCL
            /\ v.r # RIFF_ERROR_NONE =>
                   v.r = w.r /\ (v.r >= RIFF_ERROR_CRITICAL \/ v.r \in others)

\* C21, as stated: riff_levelValidate seeks to the start of the level and calls
\* riff_seekNextChunk until a call does not succeed; it returns success exactly
\* when the walk ends in EOCL, and any other value it returns is a critical error
C21_LevelValidate == Returned => LevelValidateReturns({})

\* C21, amended: the same, but the other values it returns are the result that
\* ended the walk: a critical error, or EXDAT
C21_LevelValidateExdat == Returned => LevelValidateReturns({RIFF_ERROR_EXDAT})

\* riff_levelValidate has returned EXDAT
C21_Witness ==
    Returned /\ op = "riff_levelValidate" /\ ret = RIFF_ERROR_EXDAT

\* the list ids of the format
ListIds == {id_RIFF, id_LIST, id_BW64}

\* the levels down to d below that of h, whose first chunk h is at, are valid:
\* the walk of each ends in EOCL and each list chunk in them can be entered
RECURSIVE LevelValid(_, _)
LevelValid(h, d) ==
    \A w \in {WalkFrom(h, MaxWalk)} :
        /\ w.ended /\ w.r = RIFF_ERROR_EOCL
        /\ \A i \in 1..Len(w.path) :
               w.path[i].c_id \in ListIds =>
                   \A s \in {riff_seekLevelSub(w.path[i])} :
                       s.r = RIFF_ERROR_NONE /\ d > 0 /\ LevelValid(s.rh, d - 1)

\* the greatest depth of a list in a source of the model
MaxDepth == 3

\* the source is structurally valid
SourceValid ==
    \A s \in {riff_rewind(rh)} : s.r = RIFF_ERROR_NONE /\ LevelValid(s.rh, MaxDepth)

\* C22: riff_fileValidate returns success for a structurally valid source, and
\* then ls_level = 0; for any other source it returns an error, the first
\* critical error of the walk (or EXDAT, where that is all there is)
C22_FileValidate ==
    Returned =>
        \A v \in {riff_fileValidate(rh)} :
            v.st = "ret" =>
                IF SourceValid
                THEN v.r = RIFF_ERROR_NONE /\ v.rh.ls_level = 0
                ELSE v.r >= RIFF_ERROR_CRITICAL \/ v.r = RIFF_ERROR_EXDAT

\* a level down to d below that of h, whose first chunk h is at, has a critical
\* error: its walk ends in one, or a list chunk in it cannot be entered, or the
\* level of such a chunk has one
RECURSIVE CriticalIn(_, _)
CriticalIn(h, d) ==
    \E w \in {WalkFrom(h, MaxWalk)} :
        \/ w.ended /\ w.r >= RIFF_ERROR_CRITICAL
        \/ \E i \in 1..Len(w.path) :
               /\ w.path[i].c_id \in ListIds
               /\ \E s \in {riff_seekLevelSub(w.path[i])} :
                      \/ s.r >= RIFF_ERROR_CRITICAL
                      \/ s.r = RIFF_ERROR_NONE /\ d > 0 /\ CriticalIn(s.rh, d - 1)

\* C23: riff_fileValidate enters every chunk with the id "RIFF", "LIST" or "BW64"
\* at every level, the first chunk of a level included, so that it returns a
\* critical error when there is one in any list of the tree
C23_EveryList ==
    Returned =>
        \A s \in {riff_rewind(rh)} : \A v \in {riff_fileValidate(rh)} :
            v.st = "ret" /\ s.r = RIFF_ERROR_NONE /\ CriticalIn(s.rh, MaxDepth)
                => v.r >= RIFF_ERROR_CRITICAL

\* the number of the chunks on the path of a walk, and of those with the id
Chunks(w) == Len(w.path)

ChunksWithID(w, id) == Cardinality({i \in 1..Len(w.path) : w.path[i].c_id = id})

\* C24: in a level whose walk from riff_seekLevelStart ends in EOCL,
\* riff_amountOfChunksInLevel returns one plus the number of the calls of
\* riff_seekNextChunk that succeed, the number of the chunks of the level, and
\* riff_amountOfChunksInLevelWithID(id) the number of those with the id
C24_Counts ==
    Returned =>
        \A w \in {LevelWalk(rh)} :
            w.ended /\ w.r = RIFF_ERROR_EOCL =>
                /\ \A c \in {riff_amountOfChunksInLevel(rh)} :
                       c.st = "ret" /\ c.n = Chunks(w) /\ c.rh = w.rh
                /\ \A id \in CountIds :
                       \A c \in {riff_amountOfChunksInLevelWithID(rh, id)} :
                           c.st = "ret" /\ c.n = ChunksWithID(w, id) /\ c.rh = w.rh

\* riff_amountOfChunksInLevel has counted the two chunks of a list from a
\* position inside a chunk
C24_Witness ==
    /\ Returned
    /\ op = "riff_amountOfChunksInLevel" /\ ret = 2

\* C25: a counter returns -1 when the walk of the level ends in a critical
\* error, and the number of chunks when it ends in EOCL or in EXDAT
C25_CountOrError ==
    Returned =>
        \A w \in {LevelWalk(rh)} :
            /\ \A c \in {riff_amountOfChunksInLevel(rh)} :
                   c.st = "ret" =>
                       c.n = IF w.r >= RIFF_ERROR_CRITICAL THEN -1 ELSE Chunks(w)
            /\ \A id \in CountIds :
                   \A c \in {riff_amountOfChunksInLevelWithID(rh, id)} :
                       c.st = "ret" =>
                           c.n = IF w.r >= RIFF_ERROR_CRITICAL THEN -1
                                 ELSE ChunksWithID(w, id)


\* the functions that open a handle
OpenNames == {"riff_open_file", "riff_open_mem"}

\* C26: an entry point called with a handle that was allocated and never opened
\* returns RIFF_ERROR_INVALID_HANDLE (riff_readInChunk, which returns a number of
\* bytes, returns), without a call through an unset fp_read or fp_seek and
\* without a change of the handle
C26_HandleChecked ==
    [][rh.fp_read = "NULL" /\ op' \notin OpenNames =>
           /\ ~hung'
           /\ rh' = rh
           /\ op' # "riff_readInChunk" => ret' = RIFF_ERROR_INVALID_HANDLE]_vars


\* what the calls that may follow return, and the handle they leave
Later(h) ==
    << [size \in 0..MaxRead |-> riff_readInChunk(h, size)],
       [i \in 0..MaxSeek |-> riff_seekInChunk(h, U(i))],
       riff_seekChunkStart(h), riff_seekLevelSub(h), riff_levelParent(h) >>

\* C27: a riff_seekNextChunk that returns EOCL or EXDAT changes no field of the
\* handle and does not move or change the byte source; the current chunk is still the
\* last one of the list, and riff_readInChunk, riff_seekInChunk,
\* riff_seekChunkStart, riff_seekLevelSub and riff_levelParent do afterwards
\* what they would have done before it
C27_EndOfListKeeps ==
    [][IsOpen /\ op' = "riff_seekNextChunk"
              /\ ret' \in {RIFF_ERROR_EOCL, RIFF_ERROR_EXDAT} =>
           /\ rh' = rh
           /\ uLt(FrameEnd(rh'), uAdd(ChunkEnd(rh'), U(RIFF_CHUNK_DATA_OFFSET)))
           /\ <<data, oob>>' = <<data, oob>>
           /\ Later(rh') = Later(rh)]_vars

\* riff_seekNextChunk has returned EOCL in an inner list with bytes of the last
\* chunk read
C27_Witness ==
    /\ Returned
    /\ op = "riff_seekNextChunk" /\ ret = RIFF_ERROR_EOCL
    /\ rh.ls_level >= 1 /\ rh.c_pos # U(0)


\* the handle with the print hook set to null, and a result with such a handle
Silent(h) == [h EXCEPT !.fp_printf = "NULL"]

SilentResult(s) == [s EXCEPT !.rh = Silent(@)]

\* C28: a call on a handle whose print hook is null returns what the call on
\* the handle with the default hook returns, the result code or the number of
\* bytes and the bytes, and leaves the same handle but for the hook: for the
\* open functions on the handle just allocated and for every other function on
\* every handle that the calls before have left
C28_SilentHook ==
    /\ rh.fp_read = "NULL" /\ op = "riff_handleAllocate" =>
           /\ \A size \in FileSizes :
                  riff_open_file(Silent(rh), start, size)
                      = SilentResult(riff_open_file(rh, start, size))
           /\ Len(data) > 0 =>
                  riff_open_mem(Silent(rh), Len(data))
                      = SilentResult(riff_open_mem(rh, Len(data)))
    /\ Returned =>
           /\ \A size \in 0..MaxRead :
                  riff_readInChunk(Silent(rh), size)
                      = SilentResult(riff_readInChunk(rh, size))
           /\ \A c_pos \in SeekOffsets :
                  riff_seekInChunk(Silent(rh), c_pos)
                      = SilentResult(riff_seekInChunk(rh, c_pos))
           /\ riff_seekNextChunk(Silent(rh)) = SilentResult(riff_seekNextChunk(rh))
           /\ riff_seekChunkStart(Silent(rh)) = SilentResult(riff_seekChunkStart(rh))
           /\ riff_seekLevelStart(Silent(rh)) = SilentResult(riff_seekLevelStart(rh))
           /\ riff_seekLevelSub(Silent(rh)) = SilentResult(riff_seekLevelSub(rh))
           /\ riff_levelParent(Silent(rh)) = SilentResult(riff_levelParent(rh))
           /\ riff_seekLevelParentStart(Silent(rh))
                  = SilentResult(riff_seekLevelParentStart(rh))
           /\ riff_seekLevelParentNext(Silent(rh))
                  = SilentResult(riff_seekLevelParentNext(rh))
           /\ riff_rewind(Silent(rh)) = SilentResult(riff_rewind(rh))
           /\ riff_levelValidate(Silent(rh)) = SilentResult(riff_levelValidate(rh))
           /\ riff_fileValidate(Silent(rh)) = SilentResult(riff_fileValidate(rh))
           /\ riff_amountOfChunksInLevel(Silent(rh))
                  = SilentResult(riff_amountOfChunksInLevel(rh))
           /\ \A id \in CountIds :
                  riff_amountOfChunksInLevelWithID(Silent(rh), id)
                      = SilentResult(riff_amountOfChunksInLevelWithID(rh, id))

\* riff_open_file with the default hook has returned EXDAT, for which the hook
\* is called, and the handle is in use
C28_Witness ==
    /\ Returned
    /\ op = "riff_open_file" /\ ret = RIFF_ERROR_EXDAT
    /\ rh.fp_printf = "riff_printf"


\* C29: with the file adapter opened on a stream at an offset k > 0, after the
\* open and after every later call without a critical error the position of
\* the stream is pos, and the open leaves the first chunk at cl_pos_start + 12
\* with pos behind its header
C29_FileOffset ==
    Returned /\ rh.fp_read = "read_file" /\ start > 0 =>
        /\ rh.fh = rh.pos
        /\ op = "riff_open_file" =>
               /\ rh.cl_pos_start = U(start)
               /\ rh.c_pos_start = uAdd(rh.cl_pos_start, U(RIFF_HEADER_SIZE))
               /\ rh.pos = uAdd(rh.c_pos_start, uAdd(U(RIFF_CHUNK_DATA_OFFSET), rh.c_pos))


\* the result of an open: the code returned and the navigator state left
OpenResult(s) == <<s.r, Scalars(s.rh), s.rh.ls>>

\* C30: opening again a handle that was opened, whatever it returned since and
\* wherever it was moved to, on the source at its start returns what the open of
\* a handle just allocated returns and leaves the same pos, current chunk,
\* current list frame and ls_level
C30_Reopen ==
    rh.fp_read # "NULL" /\ ~hung =>
        IF rh.fp_read = "read_file"
        THEN \A size \in FileSizes :
                 OpenResult(riff_open_file(rh, start, size))
                     = OpenResult(riff_open_file(riff_handleAllocate, start, size))
        ELSE OpenResult(riff_open_mem(rh, Len(data)))
                 = OpenResult(riff_open_mem(riff_handleAllocate, Len(data)))


\* C31: the open of a source that is the outer header alone, RIFF with the size
\* 4 and a type, succeeds
C31_HeaderOnly ==
    op \in OpenNames /\ data = Prefix(start) \o HeaderOnly => ret = RIFF_ERROR_NONE


\* the error codes a RIFFHandle may hold from the call before
LatestErrors == {RIFF_ERROR_NONE, RIFF_ERROR_EOCL}

\* C32: after a method of RIFFHandle, latestError() is the error code that the
\* call produced: the code returned by the methods that return one,
\* RIFF_ERROR_NONE after a readInChunk, RIFF_ERROR_NONE after a counter that
\* returned a count at the end of the list and else the code that ended its walk
C32_LatestError ==
    Returned =>
        \A e \in LatestErrors : \A w \in {RIFFHandle(rh, e)} :
            /\ \A s \in {riff_seekInChunk(rh, c) : c \in SeekOffsets}
                        \cup {riff_seekNextChunk(rh), riff_seekLevelSub(rh),
                              riff_levelParent(rh), riff_rewind(rh)} :
                   RIFFHandle_stores(w, s).w.latestError = s.r
            /\ \A s \in {riff_levelValidate(rh), riff_fileValidate(rh)} :
                   s.st = "ret" => RIFFHandle_stores(w, s).w.latestError = s.r
            /\ \A size \in 0..MaxRead :
                   RIFFHandle_readInChunk(w, size).w.latestError = RIFF_ERROR_NONE
            /\ \A c \in {RIFFHandle_amountOfChunksInLevel(w)}
                        \cup {RIFFHandle_amountOfChunksInLevelWithID(w, id) : id \in CountIds} :
                   c.st = "ret" =>
                       c.w.latestError = IF c.e = RIFF_ERROR_EOCL THEN RIFF_ERROR_NONE
                                         ELSE c.e


\* C33: after a = b the handle of a has the navigator state of b, the current
\* chunk, the current list frame, pos, ls_level and the frames of the level
\* stack, and the handle of b and its level stack are as they were
C33_CopyAssign ==
    Returned =>
        \A c \in {RIFFHandle_assign(RIFFHandle(riff_handleAllocate, RIFF_ERROR_NONE),
                                    RIFFHandle(rh, RIFF_ERROR_NONE))} :
            /\ Scalars(c.a.rh) = Scalars(rh)
            /\ c.a.rh.ls = rh.ls
            /\ c.b.rh = rh
            /\ ~c.ls_freed


\* the list frame of a handle
ListFrame(h) ==
    [cl_id |-> h.cl_id, cl_size |-> h.cl_size, cl_type |-> h.cl_type,
     cl_pos_start |-> h.cl_pos_start]

Capacity ==
    /\ rh'.ls_size >= rh.ls_size
    /\ IF rh'.ls_level = rh.ls_level + 1
       THEN /\ rh'.ls_size = IF rh.ls_level # rh.ls_size THEN rh.ls_size
                             ELSE IF rh.ls_size = 0 THEN 16 ELSE 2 * rh.ls_size
            /\ \A i \in 1..rh.ls_level : rh'.ls[i] = rh.ls[i]
       ELSE rh'.ls_size = rh.ls_size

\* C35: ls_size is 0 until the first push, 16 after it, and is doubled by a
\* push that finds ls_level = ls_size; no step lowers it, riff_levelParent and
\* riff_rewind leave it; 0 <= ls_level <= ls_size in every state; a push keeps
\* the frames below ls_level
C35_StackCapacity ==
    /\ [](rh.ls_level >= 0 /\ rh.ls_level <= rh.ls_size)
    /\ [][Capacity]_vars

\* the level stack has been doubled and the handle has come back to the top level
C35_Witness ==
    /\ Returned
    /\ rh.ls_size = 32 /\ rh.ls_level = 0 /\ op = "riff_rewind"


\* C36: with the memory adapter, opened with the size of the block, no read
\* of riff_open_mem or of a call after it copies a byte from outside the block
C36_ReadsInside ==
    rh.fp_read = "read_mem" /\ rh.size = U(Len(data)) => ~rh.oob_read


\* Sums without wraparound: a riff_ufs_t as a number of 5 limbs, the sum and the
\* order of such numbers (a sum of four values of riff_ufs_t is below 2^66)
Wide(a) == <<a[1], a[2], a[3], a[4], 0>>

wAdd(a, b) ==
    LET s1 == a[1] + b[1]
        s2 == a[2] + b[2] + (s1 \div Limb)
        s3 == a[3] + b[3] + (s2 \div Limb)
        s4 == a[4] + b[4] + (s3 \div Limb)
        s5 == a[5] + b[5] + (s4 \div Limb)
    IN  <<s1 % Limb, s2 % Limb, s3 % Limb, s4 % Limb, s5>>

wLt(a, b) ==
    \E i \in 1..5 : a[i] < b[i] /\ \A j \in (i + 1)..5 : a[j] = b[j]

\* c_pos_start + 8 + c_size + pad and cl_pos_start + 8 + cl_size as numbers
TrueChunkEnd(h) ==
    wAdd(wAdd(wAdd(Wide(h.c_pos_start), Wide(U(RIFF_CHUNK_DATA_OFFSET))), Wide(h.c_size)),
         Wide(U(h.pad)))

TrueListEnd(h) ==
    wAdd(wAdd(Wide(h.cl_pos_start), Wide(U(RIFF_CHUNK_DATA_OFFSET))), Wide(h.cl_size))

\* the functions that read a chunk header
HeaderReaders ==
    OpenNames \cup {"riff_seekNextChunk", "riff_seekLevelStart", "riff_seekLevelSub",
                    "riff_rewind", "riff_seekLevelParentNext"}

\* C37: in both builds a chunk that a header read has accepted ends, with its
\* end taken without wraparound, not behind the end of its list taken without
\* wraparound (a chunk that does is refused with ICSIZE), and a
\* riff_seekNextChunk that moves reads its header at a position not below
\* the start of the chunk it was called at
C37_NoWraparound ==
    /\ Returned /\ op \in HeaderReaders /\ ret = RIFF_ERROR_NONE =>
           ~wLt(TrueListEnd(rh), TrueChunkEnd(rh))
    /\ Returned =>
           \A s \in {riff_seekNextChunk(rh)} :
               s.r \notin {RIFF_ERROR_EOCL, RIFF_ERROR_EXDAT} =>
                   ~uLt(s.rh.c_pos_start, rh.c_pos_start)


\* C38: riff_levelValidate, riff_fileValidate and both counters return on every
\* source, no call on an opened handle being one that does not return; each
\* riff_seekNextChunk that succeeds leaves c_pos_start higher than it was, and
\* each riff_seekLevelSub that succeeds leaves a list frame that starts behind
\* the start of the one it was called in and ends not behind its end
C38_Terminates ==
    /\ rh.fp_read # "NULL" => ~hung
    /\ Returned =>
           \A s \in {riff_seekNextChunk(rh)} :
               s.r = RIFF_ERROR_NONE => uLt(rh.c_pos_start, s.rh.c_pos_start)
    /\ Returned =>
           \A s \in {riff_seekLevelSub(rh)} :
               s.r = RIFF_ERROR_NONE =>
                   /\ uLt(rh.cl_pos_start, s.rh.cl_pos_start)
                   /\ ~wLt(TrueListEnd(rh), TrueListEnd(s.rh))


\* C39: riff_seekLevelSub at a list chunk with no children (c_id "RIFF", "LIST"
\* or "BW64", c_size 4 and a type of printable bytes) returns EOF, ILLID or
\* ICSIZE, with ls_level one higher than before the call and the childless
\* list as the current list frame
C39_ChildlessList ==
    Returned /\ rh.c_id \in ListIds /\ rh.c_size = U(4) /\ Ascii(TypeAt(rh)) =>
        \A s \in {riff_seekLevelSub(rh)} :
            /\ s.r \in {RIFF_ERROR_EOF, RIFF_ERROR_ILLID, RIFF_ERROR_ICSIZE}
            /\ s.rh.ls_level = rh.ls_level + 1
            /\ s.rh.cl_id = rh.c_id
            /\ s.rh.cl_size = rh.c_size
            /\ s.rh.cl_pos_start = rh.c_pos_start
            /\ s.rh.cl_type = TypeAt(rh)

=============================================================================
